---------------------------- MODULE Spec2Model ----------------------------
(***************************************************************************)
(* Model of package buid (Bipartite Unique Identifier): the generator      *)
(* Process with its constructor NewProcess and its minting operation       *)
(* NewID, the clock conversions internalTime / externalTime, and the       *)
(* 16-byte codec (ID.Time, ID.Split, Shard.Index, Key.Counter, ...).       *)
(*                                                                         *)
(* Representation of times.  TLC's integers are 32 bits wide, while a tick *)
(* (int64 microseconds since Epoch) and hourInMicroseconds = 3.6e9 are     *)
(* not.  A tick is therefore kept in mixed radix as the record             *)
(*     [min |-> whole minutes since Epoch, us |-> microseconds in minute]  *)
(* which stands for the int64  min * minuteInMicroseconds + us, and a      *)
(* time.Time as [min, us, ns] with ns the nanoseconds within the           *)
(* microsecond.  All times are offsets from the Epoch instant, and the     *)
(* wall clock is after Epoch, so stored ticks are never negative.          *)
(*                                                                         *)
(* Representation of the counter.  The sequence counter field is narrowed  *)
(* from 16 to CounterBits bits, so that its exhaustion is reached within a *)
(* few calls: MaxUint16 is 2^CounterBits - 1 and uint16(x) reduces modulo  *)
(* 2^CounterBits.  p.counter (uint32) never exceeds MaxUint16 + 1, so its  *)
(* own width plays no part.  The counter still occupies bytes 14 and 15.   *)
(***************************************************************************)
EXTENDS Integers, Sequences, FiniteSets, TLC

(***************************************************************************)
(* Program constants.                                                      *)
(***************************************************************************)
secondInMicroseconds == 1000000
minuteInMicroseconds == 60 * secondInMicroseconds
\* hourInMicroseconds = 60 * minuteInMicroseconds, as a number of minutes
hourInMinutes == 60
\* time.Microsecond, as a number of nanoseconds
Microsecond == 1000

(***************************************************************************)
(* Bounds of the model.                                                    *)
(***************************************************************************)
\* width in bits of the sequence counter field (uint16 in the program)
CounterBits == 2
\* number of NewID calls started in one behaviour
MaxCalls == 5
\* the same, in the fair specification
MaxFairCalls == 6
\* the wall clock runs over 0..MaxClock steps of ClockStepNs nanoseconds
MaxClock == 8
ClockStepNs == 500

\* math.MaxUint16 for a counter field of CounterBits bits
MaxUint16 == 2^CounterBits - 1

\* the concurrent callers
Callers == {1, 2}
\* caller 1 is the only caller of the sequential specification
SeqCallers == {1}
\* ids passed to NewProcess
ProcessIds == {1}
Shards == {2, 258}
\* the shard index does not enter the state transition: concurrent callers use one
ConcShards == {2}

(***************************************************************************)
(* Fixed-width integer helpers.                                            *)
(***************************************************************************)
byte(x) == x % 256
shr(x, k) == x \div (2^k)
shl8(x, k) == (x * (2^k)) % 256

RECURSIVE and(_, _)
and(a, b) ==
    IF a = 0 \/ b = 0 THEN 0
    ELSE ((a % 2) * (b % 2)) + 2 * and(a \div 2, b \div 2)

RECURSIVE or(_, _)
or(a, b) ==
    IF a = 0 THEN b
    ELSE IF b = 0 THEN a
    ELSE (IF (a % 2) + (b % 2) > 0 THEN 1 ELSE 0) + 2 * or(a \div 2, b \div 2)

\* uint16(x) for the counter field
uint16(x) == x % (MaxUint16 + 1)

(***************************************************************************)
(* Ticks and times.                                                        *)
(***************************************************************************)
TickLess(a, b) == a.min < b.min \/ (a.min = b.min /\ a.us < b.us)

\* Epoch, the microseconds from 1970-01-01 to 2017-10-24, as a number of minutes
EpochMinutes == 25146720

\* a count of nanoseconds as minutes, microseconds below the minute and
\* nanoseconds below the microsecond
NsNorm(m, u, n) ==
    LET us == u + (n \div Microsecond)
    IN  [min |-> m + (us \div minuteInMicroseconds),
         us |-> us % minuteInMicroseconds,
         ns |-> n % Microsecond]
NsLess(a, b) ==
    \/ a.min < b.min
    \/ a.min = b.min /\ a.us < b.us
    \/ a.min = b.min /\ a.us = b.us /\ a.ns < b.ns
NsPlus(a, b) == NsNorm(a.min + b.min, a.us + b.us, a.ns + b.ns)
NsMinus(a, b) == NsNorm(a.min - b.min, a.us - b.us, a.ns - b.ns)

\* math.MaxInt64, math.MinInt64 and 2^64 nanoseconds
MaxInt64Ns == [min |-> 153722867, us |-> 16854775, ns |-> 807]
MinInt64Ns == [min |-> -153722868, us |-> 43145224, ns |-> 192]
TwoTo64Ns == [min |-> 307445734, us |-> 33709551, ns |-> 616]

\* an int64 count of nanoseconds wraps around: w is the number of times,
\* counted in double minutes and then corrected by one
int64(n) ==
    LET w == ((n.min \div 2) + (MaxInt64Ns.min \div 2))
                 \div (TwoTo64Ns.min \div 2)
        r == NsNorm((n.min - (w - 1) * TwoTo64Ns.min) - TwoTo64Ns.min,
                    n.us - w * TwoTo64Ns.us, n.ns - w * TwoTo64Ns.ns)
    IN  IF NsLess(MaxInt64Ns, r) THEN NsMinus(r, TwoTo64Ns)
        ELSE IF NsLess(r, MinInt64Ns) THEN NsPlus(r, TwoTo64Ns)
        ELSE r

\* the nanoseconds from 1970-01-01 of a time, and back
UnixNano(t) == int64([min |-> t.min + EpochMinutes, us |-> t.us, ns |-> t.ns])
Unix(n) == [min |-> n.min - EpochMinutes, us |-> n.us, ns |-> n.ns]

\* internalTime: t.UnixNano()/1000 - Epoch; the division truncates toward zero
internalTime(t) ==
    LET n == UnixNano(t)
        k == IF n.min < 0 /\ n.ns # 0 THEN NsNorm(n.min, n.us + 1, 0) ELSE n
    IN  [min |-> k.min - EpochMinutes, us |-> k.us]

\* externalTime: time.Unix(0, (Epoch+t)*1000)
externalTime(k) ==
    Unix(int64([min |-> k.min + EpochMinutes, us |-> k.us, ns |-> 0]))

\* Time.Sub, in nanoseconds
Sub(a, b) ==
    ((a.min - b.min) * minuteInMicroseconds + (a.us - b.us)) * Microsecond
        + (a.ns - b.ns)

\* the instant T = 2023-01-01T00:00:00Z is 1895 days after Epoch (2017-10-24)
THour == 1895 * 24
T == [min |-> THour * hourInMinutes, us |-> 0, ns |-> 0]

\* the wall clock starts two microseconds before T
ClockBase == [min |-> THour * hourInMinutes - 1,
              us |-> minuteInMicroseconds - 2, ns |-> 0]

\* the time n nanoseconds after ClockBase
AddNs(b, n) ==
    LET us == b.us + ((b.ns + n) \div Microsecond)
    IN  [min |-> b.min + (us \div minuteInMicroseconds),
         us |-> us % minuteInMicroseconds,
         ns |-> (b.ns + n) % Microsecond]

\* time.Now() when the wall clock is at step h
Now(h) == AddNs(ClockBase, h * ClockStepNs)

\* the instant of Epoch itself, a timestamp far in the past
EpochTime == [min |-> 0, us |-> 0, ns |-> 0]

\* the last microsecond of the hour before T
TBefore == AddNs(ClockBase, Microsecond)

\* a time between two ticks, after T
TAfter == AddNs(T, Microsecond + ClockStepNs)

\* timestamps the caller of the sequential specification supplies
Timestamps == {TBefore, T}
\* timestamps concurrent callers supply
ConcTimestamps == {EpochTime, TAfter}
\* timestamps the callers of the fair specification supply
FairTimestamps == {TAfter}

(***************************************************************************)
(* The 16-byte layout.  An ID is a sequence of 16 bytes; Go's id[k] is     *)
(* id[k+1] here.                                                           *)
(***************************************************************************)
\* the decomposition of the int64 tick t in NewID
HourOf(t) == t.min \div hourInMinutes
MinuteOf(t) == byte(t.min % hourInMinutes)
SecondOf(t) == byte(t.us \div secondInMicroseconds)
MicroOf(t) == t.us % secondInMicroseconds

\* Pack that leaves the two high bits of the second out of byte 8
PackSecondLowBits(shard, t, process, counter) ==
    LET hour   == HourOf(t)
        minute == MinuteOf(t)
        second == SecondOf(t)
        micro  == MicroOf(t)
    IN  << byte(shr(shard, 8)), byte(shard),
           0, 0,
           byte(shr(hour, 24)), byte(shr(hour, 16)), byte(shr(hour, 8)), byte(hour),
           shl8(and(minute, 63), 2),
           or(shl8(and(second, 15), 4), byte(shr(micro, 16))),
           byte(shr(micro, 8)), byte(micro),
           byte(shr(process, 8)), byte(process),
           byte(shr(counter, 8)), byte(counter) >>

\* Pack that puts the two high bits of the second above the minute in byte 8
PackSecondAboveMinute(shard, t, process, counter) ==
    LET hour   == HourOf(t)
        minute == MinuteOf(t)
        second == SecondOf(t)
        micro  == MicroOf(t)
    IN  << byte(shr(shard, 8)), byte(shard),
           0, 0,
           byte(shr(hour, 24)), byte(shr(hour, 16)), byte(shr(hour, 8)), byte(hour),
           or(shl8(and(second, 48), 2), and(minute, 63)),
           or(shl8(and(second, 15), 4), byte(shr(micro, 16))),
           byte(shr(micro, 8)), byte(micro),
           byte(shr(process, 8)), byte(process),
           byte(shr(counter, 8)), byte(counter) >>

\* Pack that leaves the high byte of the process id out
PackProcessLowByte(shard, t, process, counter) ==
    LET hour   == HourOf(t)
        minute == MinuteOf(t)
        second == SecondOf(t)
        micro  == MicroOf(t)
    IN  << byte(shr(shard, 8)), byte(shard),
           0, 0,
           byte(shr(hour, 24)), byte(shr(hour, 16)), byte(shr(hour, 8)), byte(hour),
           or(shl8(and(minute, 63), 2), shr(and(second, 48), 4)),
           or(shl8(and(second, 15), 4), byte(shr(micro, 16))),
           byte(shr(micro, 8)), byte(micro),
           0, byte(process),
           byte(shr(counter, 8)), byte(counter) >>

\* Pack that writes the shard index into the reserved bytes as well
PackIndexInReserved(shard, t, process, counter) ==
    LET hour   == HourOf(t)
        minute == MinuteOf(t)
        second == SecondOf(t)
        micro  == MicroOf(t)
    IN  << byte(shr(shard, 8)), byte(shard),
           byte(shr(shard, 8)), byte(shard),
           byte(shr(hour, 24)), byte(shr(hour, 16)), byte(shr(hour, 8)), byte(hour),
           or(shl8(and(minute, 63), 2), shr(and(second, 48), 4)),
           or(shl8(and(second, 15), 4), byte(shr(micro, 16))),
           byte(shr(micro, 8)), byte(micro),
           byte(shr(process, 8)), byte(process),
           byte(shr(counter, 8)), byte(counter) >>

\* Pack that mixes the shard index into the process bytes
PackIndexOverProcess(shard, t, process, counter) ==
    LET hour   == HourOf(t)
        minute == MinuteOf(t)
        second == SecondOf(t)
        micro  == MicroOf(t)
    IN  << byte(shr(shard, 8)), byte(shard),
           0, 0,
           byte(shr(hour, 24)), byte(shr(hour, 16)), byte(shr(hour, 8)), byte(hour),
           or(shl8(and(minute, 63), 2), shr(and(second, 48), 4)),
           or(shl8(and(second, 15), 4), byte(shr(micro, 16))),
           byte(shr(micro, 8)), byte(micro),
           byte(shr(or(process, shard), 8)), byte(or(process, shard)),
           byte(shr(counter, 8)), byte(counter) >>

\* the composite literal ID{...} NewID returns
Pack(shard, t, process, counter) ==
    LET hour   == HourOf(t)
        minute == MinuteOf(t)
        second == SecondOf(t)
        micro  == MicroOf(t)
    IN  << byte(shr(shard, 8)), byte(shard),
           0, 0,
           byte(shr(hour, 24)), byte(shr(hour, 16)), byte(shr(hour, 8)), byte(hour),
           or(shl8(and(minute, 63), 2), shr(and(second, 48), 4)),
           or(shl8(and(second, 15), 4), byte(shr(micro, 16))),
           byte(shr(micro, 8)), byte(micro),
           byte(shr(process, 8)), byte(process),
           byte(shr(counter, 8)), byte(counter) >>

\* the int64 hour*hourInMicroseconds + minute*minuteInMicroseconds
\*                + second*secondInMicroseconds + micro, as a tick
TickOf(hour, minute, second, micro) ==
    LET us == second * secondInMicroseconds + micro
    IN  [min |-> hour * hourInMinutes + minute + (us \div minuteInMicroseconds),
         us |-> us % minuteInMicroseconds]

\* ID.Time
IDTime(id) ==
    LET hour   == or(or(id[5] * 2^24, id[6] * 2^16), or(id[7] * 2^8, id[8]))
        minute == shr(and(id[9], 252), 2)
        second == or(shl8(and(id[9], 3), 4), shr(id[10], 4))
        micro  == or(or(and(id[10], 15) * 2^16, id[11] * 2^8), id[12])
    IN  externalTime(TickOf(hour, minute, second, micro))

\* ID.Split that copies the first half into the key as well
SplitKeyFromShard(id) == [shard |-> SubSeq(id, 1, 8), key |-> SubSeq(id, 1, 8)]

\* ID.Split that returns the halves in the other order
SplitHalvesSwapped(id) == [shard |-> SubSeq(id, 9, 16), key |-> SubSeq(id, 1, 8)]

\* ID.Split
Split(id) == [shard |-> SubSeq(id, 1, 8), key |-> SubSeq(id, 9, 16)]

\* Shard.Index
ShardIndex(s) == or(s[1] * 2^8, s[2])

\* Key.Process that reads the low byte only
KeyProcessLowByte(k) == k[6]

\* Key.Process
KeyProcess(k) == or(k[5] * 2^8, k[6])

\* Key.Counter
KeyCounter(k) == or(k[7] * 2^8, k[8])

\* Shard.Time
ShardTime(s) ==
    LET hour == or(or(s[5] * 2^24, s[6] * 2^16), or(s[7] * 2^8, s[8]))
    IN  externalTime(TickOf(hour, 0, 0, 0))

\* Key.Time that leaves the seconds out
KeyTimeNoSeconds(k) ==
    LET minute == shr(and(k[1], 252), 2)
        micro  == or(or(and(k[2], 15) * 2^16, k[3] * 2^8), k[4])
    IN  NsNorm(minute, micro, 0)

\* Key.Time, a time.Duration: nanoseconds as minutes, microseconds, nanoseconds
KeyTime(k) ==
    LET minute == shr(and(k[1], 252), 2)
        second == or(shl8(and(k[1], 3), 4), shr(k[2], 4))
        micro  == or(or(and(k[2], 15) * 2^16, k[3] * 2^8), k[4])
    IN  NsNorm(minute, second * secondInMicroseconds + micro, 0)

(***************************************************************************)
(* State.                                                                  *)
(*   clock    the wall clock, in steps of ClockStepNs after ClockBase      *)
(*   ctor     the position of NewProcess and its local t                   *)
(*   p        the Process: id, counter, t                                  *)
(*   mu       p.mu: 0 when unlocked, else the caller holding it            *)
(*   call     per caller: position in NewID and its parameters and locals  *)
(*   log      one record per NewID call, in the order the calls unlocked   *)
(*            p.mu: the call's inputs, the Process state it found (pre)    *)
(*            and left (post), the tick and counter it decided, and, once  *)
(*            the call has returned, the ID it returned                    *)
(*   q, qctor, qmu   a second Process, its NewProcess and its mutex        *)
(*   codec    the inputs and results of the pure conversions               *)
(*   vgob     a Marshaler, an Unmarshaler and the data between them, and   *)
(*            a SchemaStore with its file, Marshaler and Unmarshaler       *)
(***************************************************************************)
VARIABLES clock, ctor, p, mu, call, log, q, qctor, qmu, codec, vgob

vars == <<clock, ctor, p, mu, call, log, q, qctor, qmu, codec, vgob>>

\* the second Process
qvars == <<q, qctor, qmu>>

NoTick == [min |-> 0, us |-> 0]
NoTime == [min |-> 0, us |-> 0, ns |-> 0]
NoID == <<>>
\* nothing converted
NoCodec == [pc |-> "none"]
\* no Marshaler, no Unmarshaler, nothing marshaled, nothing unmarshaled
None == [typ |-> ""]
\* a SchemaStore without schemas, no file, no Marshaler and no Unmarshaler
\* of the store, nothing registered (regs), marshaled or unmarshaled
NoStore == [schemas |-> <<>>, file |-> None, m |-> None, u |-> None,
            regs |-> <<>>, data |-> <<>>, v |-> None, out |-> None]
NoVgob == [m |-> None, u |-> None, data |-> <<>>, v |-> None, merr |-> "",
           results |-> <<>>, store |-> NoStore]

IdleCall == [pc |-> "idle", shard |-> 0, timestamp |-> NoTime, ts |-> NoTick,
             counter |-> 0, t |-> NoTick, pre |-> [counter |-> 0, t |-> NoTick],
             k |-> 0]

Init ==
    /\ clock = 0
    /\ ctor = [pc |-> "none", t |-> NoTime]
    /\ p = [id |-> 0, counter |-> 0, t |-> NoTick]
    /\ mu = 0
    /\ call = [c \in Callers |-> IdleCall]
    /\ log = <<>>
    /\ q = [id |-> 0, counter |-> 0, t |-> NoTick]
    /\ qctor = [pc |-> "none", t |-> NoTime]
    /\ qmu = 0
    /\ codec = NoCodec
    /\ vgob = NoVgob

\* the wall clock advances
Tick ==
    /\ clock < MaxClock
    /\ clock' = clock + 1
    /\ UNCHANGED <<ctor, p, mu, call, log, qvars, codec, vgob>>

(***************************************************************************)
(* NewProcess                                                              *)
(***************************************************************************)
\* t := time.Now()
NewProcessStart(id) ==
    /\ ctor.pc = "none"
    /\ ctor' = [pc |-> "poll", t |-> Now(clock)]
    /\ p' = [p EXCEPT !.id = id]
    /\ UNCHANGED <<clock, mu, call, log, qvars, codec, vgob>>

\* NewProcessPoll that leaves the loop on its first sample
NewProcessPollNoWait ==
    /\ ctor.pc = "poll"
    /\ ctor' = [pc |-> "done", t |-> Now(clock)]
    /\ p' = [id |-> p.id, counter |-> 0, t |-> internalTime(Now(clock))]
    /\ UNCHANGED <<clock, mu, call, log, qvars, codec, vgob>>

\* one iteration of the loop; on exit the Process is returned
NewProcessPoll ==
    /\ ctor.pc = "poll"
    /\ LET now == Now(clock)
       IN  IF Sub(now, ctor.t) > Microsecond
           THEN /\ ctor' = [pc |-> "done", t |-> now]
                /\ p' = [id |-> p.id, counter |-> 0, t |-> internalTime(now)]
           ELSE UNCHANGED <<ctor, p>>
    /\ UNCHANGED <<clock, mu, call, log, qvars, codec, vgob>>

(***************************************************************************)
(* NewID                                                                   *)
(***************************************************************************)
\* calls that have been started
Started == Len(log) + Cardinality({c \in Callers : call[c].pc \in {"lock", "decide", "wait", "unlock"}})

\* entry: ts := internalTime(timestamp); counter := uint16(0)
NewIDCall(c, shard, timestamp, maxCalls) ==
    /\ ctor.pc = "done"
    /\ call[c].pc = "idle"
    /\ Started < maxCalls
    /\ clock < MaxClock
    /\ call' = [call EXCEPT ![c] = [IdleCall EXCEPT !.pc = "lock", !.shard = shard,
                                       !.timestamp = timestamp,
                                       !.ts = internalTime(timestamp),
                                       !.counter = 0]]
    /\ UNCHANGED <<clock, ctor, p, mu, log, qvars, codec, vgob>>

\* Lock that does not wait for the mutex to be free
LockNoExclusion(c) ==
    /\ call[c].pc = "lock"
    /\ mu' = c
    /\ call' = [call EXCEPT ![c].pc = "decide", ![c].pre = [counter |-> p.counter, t |-> p.t]]
    /\ UNCHANGED <<clock, ctor, p, log, qvars, codec, vgob>>

\* Lock that waits for the mutexes of both Processes to be free
LockBothFree(c) ==
    /\ call[c].pc = "lock"
    /\ mu = 0
    /\ qmu = 0
    /\ mu' = c
    /\ call' = [call EXCEPT ![c].pc = "decide", ![c].pre = [counter |-> p.counter, t |-> p.t]]
    /\ UNCHANGED <<clock, ctor, p, log, qvars, codec, vgob>>

\* p.mu.Lock()
Lock(c) ==
    /\ call[c].pc = "lock"
    /\ mu = 0
    /\ mu' = c
    /\ call' = [call EXCEPT ![c].pc = "decide", ![c].pre = [counter |-> p.counter, t |-> p.t]]
    /\ UNCHANGED <<clock, ctor, p, log, qvars, codec, vgob>>

\* Decide that adopts a later timestamp without resetting the counter and
\* falls through to the assignment of the sequence number
DecideFallThrough(c) ==
    /\ call[c].pc = "decide"
    /\ IF TickLess(p.t, call[c].ts)
       THEN /\ p' = [p EXCEPT !.t = call[c].ts, !.counter = p.counter + 1]
            /\ call' = [call EXCEPT ![c].pc = "unlock", ![c].counter = uint16(p.counter)]
       ELSE IF p.counter > MaxUint16
       THEN /\ call' = [call EXCEPT ![c].pc = "wait"]
            /\ UNCHANGED p
       ELSE /\ p' = [p EXCEPT !.counter = p.counter + 1]
            /\ call' = [call EXCEPT ![c].pc = "unlock", ![c].counter = uint16(p.counter)]
    /\ UNCHANGED <<clock, ctor, mu, log, qvars, codec, vgob>>

\* Decide that adopts every timestamp different from the stored tick
DecideAdoptAny(c) ==
    /\ call[c].pc = "decide"
    /\ IF call[c].ts # p.t
       THEN /\ p' = [p EXCEPT !.t = call[c].ts, !.counter = 0]
            /\ call' = [call EXCEPT ![c].pc = "unlock"]
       ELSE IF p.counter > MaxUint16
       THEN /\ call' = [call EXCEPT ![c].pc = "wait"]
            /\ UNCHANGED p
       ELSE /\ p' = [p EXCEPT !.counter = p.counter + 1]
            /\ call' = [call EXCEPT ![c].pc = "unlock", ![c].counter = uint16(p.counter)]
    /\ UNCHANGED <<clock, ctor, mu, log, qvars, codec, vgob>>

\* Decide that finds the counter full one increment later
DecideFullLate(c) ==
    /\ call[c].pc = "decide"
    /\ IF TickLess(p.t, call[c].ts)
       THEN /\ p' = [p EXCEPT !.t = call[c].ts, !.counter = 0]
            /\ call' = [call EXCEPT ![c].pc = "unlock"]
       ELSE IF p.counter > MaxUint16 + 1
       THEN /\ call' = [call EXCEPT ![c].pc = "wait"]
            /\ UNCHANGED p
       ELSE /\ p' = [p EXCEPT !.counter = p.counter + 1]
            /\ call' = [call EXCEPT ![c].pc = "unlock", ![c].counter = uint16(p.counter)]
    /\ UNCHANGED <<clock, ctor, mu, log, qvars, codec, vgob>>

\* the if statement up to the loop
Decide(c) ==
    /\ call[c].pc = "decide"
    /\ IF TickLess(p.t, call[c].ts)
       THEN /\ p' = [p EXCEPT !.t = call[c].ts, !.counter = 0]
            /\ call' = [call EXCEPT ![c].pc = "unlock"]
       ELSE IF p.counter > MaxUint16
       THEN /\ call' = [call EXCEPT ![c].pc = "wait"]
            /\ UNCHANGED p
       ELSE /\ p' = [p EXCEPT !.counter = p.counter + 1]
            /\ call' = [call EXCEPT ![c].pc = "unlock", ![c].counter = uint16(p.counter)]
    /\ UNCHANGED <<clock, ctor, mu, log, qvars, codec, vgob>>

\* Wait that leaves the loop on a sample equal to the stored tick
WaitNotStrict(c) ==
    /\ call[c].pc = "wait"
    /\ LET now == internalTime(Now(clock))
       IN  IF ~TickLess(now, p.t)
           THEN /\ p' = [p EXCEPT !.t = now, !.counter = 0 + 1]
                /\ call' = [call EXCEPT ![c].pc = "unlock", ![c].counter = uint16(0)]
           ELSE UNCHANGED <<p, call>>
    /\ UNCHANGED <<clock, ctor, mu, log, qvars, codec, vgob>>

\* one iteration of the loop that resamples the wall clock
Wait(c) ==
    /\ call[c].pc = "wait"
    /\ LET now == internalTime(Now(clock))
       IN  IF TickLess(p.t, now)
           THEN /\ p' = [p EXCEPT !.t = now, !.counter = 0 + 1]
                /\ call' = [call EXCEPT ![c].pc = "unlock", ![c].counter = uint16(0)]
           ELSE UNCHANGED <<p, call>>
    /\ UNCHANGED <<clock, ctor, mu, log, qvars, codec, vgob>>

\* Unlock that reads p.t and leaves the mutex held
UnlockKeepsMutex(c) ==
    /\ call[c].pc = "unlock"
    /\ call' = [call EXCEPT ![c].pc = "pack", ![c].t = p.t, ![c].k = Len(log) + 1]
    /\ log' = Append(log, [c |-> c, shard |-> call[c].shard,
                           timestamp |-> call[c].timestamp,
                           pre |-> call[c].pre,
                           post |-> [counter |-> p.counter, t |-> p.t],
                           t |-> p.t, counter |-> call[c].counter,
                           id |-> NoID])
    /\ UNCHANGED <<clock, ctor, p, mu, qvars, codec, vgob>>

\* t := p.t; p.mu.Unlock()
Unlock(c) ==
    /\ call[c].pc = "unlock"
    /\ mu' = 0
    /\ call' = [call EXCEPT ![c].pc = "pack", ![c].t = p.t, ![c].k = Len(log) + 1]
    /\ log' = Append(log, [c |-> c, shard |-> call[c].shard,
                           timestamp |-> call[c].timestamp,
                           pre |-> call[c].pre,
                           post |-> [counter |-> p.counter, t |-> p.t],
                           t |-> p.t, counter |-> call[c].counter,
                           id |-> NoID])
    /\ UNCHANGED <<clock, ctor, p, qvars, codec, vgob>>

\* Return that reads the stored tick when it packs
ReturnReadsProcess(c) ==
    /\ call[c].pc = "pack"
    /\ log' = [log EXCEPT ![call[c].k].id =
                  Pack(call[c].shard, p.t, p.id, call[c].counter)]
    /\ call' = [call EXCEPT ![c] = IdleCall]
    /\ UNCHANGED <<clock, ctor, p, mu, qvars, codec, vgob>>

\* the decomposition of t and return ID{...}
Return(c) ==
    /\ call[c].pc = "pack"
    /\ log' = [log EXCEPT ![call[c].k].id =
                  Pack(call[c].shard, call[c].t, p.id, call[c].counter)]
    /\ call' = [call EXCEPT ![c] = IdleCall]
    /\ UNCHANGED <<clock, ctor, p, mu, qvars, codec, vgob>>

NewID(c, shards, timestamps, maxCalls) ==
    \/ \E shard \in shards, timestamp \in timestamps :
           NewIDCall(c, shard, timestamp, maxCalls)
    \/ Lock(c)
    \/ Decide(c)
    \/ Wait(c)
    \/ Unlock(c)
    \/ Return(c)

NewProcess ==
    \/ \E id \in ProcessIds : NewProcessStart(id)
    \/ NewProcessPoll

\* one caller at a time
Next ==
    \/ Tick
    \/ NewProcess
    \/ \E c \in SeqCallers : NewID(c, Shards, Timestamps, MaxCalls)

Spec == Init /\ [][Next]_vars

\* concurrent callers
NextConc ==
    \/ Tick
    \/ NewProcess
    \/ \E c \in Callers : NewID(c, ConcShards, ConcTimestamps, MaxCalls)

SpecConc == Init /\ [][NextConc]_vars

(***************************************************************************)
(* Properties.                                                             *)
(***************************************************************************)
Returned(k) == log[k].id # NoID
Counter(id) == KeyCounter(Split(id).key)
Index(id) == ShardIndex(Split(id).shard)
Requested(k) == internalTime(log[k].timestamp)
\* the stored tick and counter NewProcess returned
Seed == [counter |-> 0, t |-> internalTime(ctor.t)]
\* calls before call k that decided tick t
OnTick(t, k) == {j \in 1..(k - 1) : log[j].t = t}
\* call k found the counter not exhausted and a timestamp not later than the stored tick
Continues(k) ==
    /\ ~TickLess(log[k].pre.t, Requested(k))
    /\ log[k].pre.counter <= MaxUint16
\* call k found every sequence number of the stored tick assigned and a
\* timestamp not later than the stored tick
Exhausted(k) ==
    /\ ~TickLess(log[k].pre.t, Requested(k))
    /\ {log[j].counter : j \in OnTick(log[k].pre.t, k)} = 0..MaxUint16

\* C1: no two identifiers returned by one generator are equal, provided
\* fewer than MaxUint16+1 calls land on any one tick.
C1_Unique ==
    (\A k \in 1..Len(log) : Cardinality(OnTick(log[k].t, Len(log) + 1)) < MaxUint16 + 1)
    => \A i, j \in 1..Len(log) :
           (i # j /\ Returned(i) /\ Returned(j)) => log[i].id # log[j].id

\* C2: from a fresh generator, N <= MaxUint16+1 consecutive calls with one
\* timestamp return the sequence numbers 0, 1, ..., N-1 in call order.
C2_SequentialCounters ==
    (/\ Len(log) <= MaxUint16 + 1
     /\ \A k \in 1..Len(log) : log[k].timestamp = log[1].timestamp)
    => \A k \in 1..Len(log) : Returned(k) => Counter(log[k].id) = k - 1

C4_Scenario ==
    (/\ p.id = 1
     /\ Len(log) >= 3
     /\ \A k \in 1..3 : Returned(k) /\ log[k].shard = 2 /\ log[k].timestamp = T)
    => /\ \A i, j \in 1..3 : i # j => log[i].id # log[j].id
       /\ \A k \in 1..3 :
              /\ Counter(log[k].id) = k - 1
              /\ Index(log[k].id) = 2
              /\ IDTime(log[k].id) = T

\* C5: a call whose timestamp is not later than the stored tick and that
\* finds the counter not exhausted leaves the stored tick unchanged, returns
\* the counter as its sequence number and increments the counter; once an
\* identifier was issued on the stored tick its sequence number is not 0.
C5_NoBackwardReset ==
    \A k \in 1..Len(log) :
        Continues(k) =>
            /\ log[k].post.t = log[k].pre.t
            /\ log[k].post.counter = log[k].pre.counter + 1
            /\ log[k].counter = log[k].pre.counter
            /\ Returned(k) => Counter(log[k].id) = log[k].pre.counter
            /\ OnTick(log[k].pre.t, k) # {} => log[k].counter # 0

\* C6: a call that advances the stored tick issues sequence number 0 and its
\* identifier carries the new stored tick.
C6_ForwardReset ==
    \A k \in 1..Len(log) :
        log[k].post.t # log[k].pre.t =>
            /\ log[k].counter = 0
            /\ log[k].t = log[k].post.t
            /\ Returned(k) =>
                   /\ Counter(log[k].id) = 0
                   /\ IDTime(log[k].id) = externalTime(log[k].post.t)

\* a returned call that advanced the stored tick by a later timestamp after
\* the counter had left 0
C6_Witness ==
    \E k \in 1..Len(log) :
        /\ Returned(k) /\ TickLess(log[k].pre.t, Requested(k))
        /\ log[k].pre.counter > 1

\* C7: a call that finds every sequence number of the stored tick assigned
\* and whose timestamp is not later than the stored tick adopts a wall clock
\* sample strictly later than the stored tick and returns sequence number 0
\* with that sample as its time, which is later than the timestamp.
C7_Overflow ==
    \A k \in 1..Len(log) :
        Exhausted(k) =>
            /\ TickLess(log[k].pre.t, log[k].post.t)
            /\ \E h \in 0..clock : log[k].post.t = internalTime(Now(h))
            /\ log[k].counter = 0
            /\ TickLess(Requested(k), log[k].post.t)
            /\ Returned(k) =>
                   /\ Counter(log[k].id) = 0
                   /\ IDTime(log[k].id) = externalTime(log[k].post.t)

\* a returned call that found the counter exhausted on a timestamp equal to
\* the stored tick
C7_Witness ==
    \E k \in 1..Len(log) :
        /\ Returned(k) /\ Exhausted(k)
        /\ Requested(k) = log[k].pre.t

\* callers between p.mu.Lock() and p.mu.Unlock()
InCriticalSection == {c \in Callers : call[c].pc \in {"decide", "wait", "unlock"}}

\* NewID as one indivisible step: the state it leaves and the sequence number
\* it decides, from the state it finds, the requested tick and the wall clock
\* sample it adopts when the counter is exhausted
AtomicNewID(pre, ts, sample) ==
    IF TickLess(pre.t, ts)
    THEN [post |-> [counter |-> 0, t |-> ts], counter |-> 0]
    ELSE IF pre.counter > MaxUint16
    THEN [post |-> [counter |-> 1, t |-> sample], counter |-> 0]
    ELSE [post |-> [counter |-> pre.counter + 1, t |-> pre.t],
          counter |-> uint16(pre.counter)]

\* C8: at most one caller is between Lock and Unlock, and the calls, taken
\* in the order they held the lock, return the identifiers and leave the
\* state that running them one after another as indivisible steps does.
C8_Atomic ==
    /\ Cardinality(InCriticalSection) <= 1
    /\ InCriticalSection \subseteq {mu}
    /\ \A k \in 1..Len(log) :
           LET e == log[k]
               r == AtomicNewID(e.pre, Requested(k), e.post.t)
           IN  /\ e.pre = IF k = 1 THEN Seed ELSE log[k - 1].post
               /\ e.post = r.post
               /\ e.counter = r.counter
               /\ e.t = r.post.t
               /\ Returned(k) => e.id = Pack(e.shard, r.post.t, p.id, r.counter)
    /\ (mu = 0 /\ ctor.pc = "done") =>
           [counter |-> p.counter, t |-> p.t]
               = IF log = <<>> THEN Seed ELSE log[Len(log)].post

\* a caller blocked at Lock while the other is inside the critical section,
\* after calls of both callers completed
C8_Witness ==
    /\ \E c \in Callers : call[c].pc = "lock" /\ mu # 0 /\ mu # c
    /\ \E i, j \in 1..Len(log) : i < j /\ log[i].c # log[j].c /\ Returned(i) /\ Returned(j)

(***************************************************************************)
(* Fairness: the wall clock advances, every caller keeps running, and a    *)
(* caller waiting for p.mu gets it when it is released often enough.       *)
(***************************************************************************)
Fairness ==
    /\ WF_vars(Tick)
    /\ \A c \in Callers :
           /\ SF_vars(Lock(c))
           /\ WF_vars(Decide(c))
           /\ WF_vars(Wait(c))
           /\ WF_vars(Unlock(c))
           /\ WF_vars(Return(c))

NextFair ==
    \/ Tick
    \/ NewProcess
    \/ \E c \in Callers : NewID(c, ConcShards, FairTimestamps, MaxFairCalls)

FairSpec == Init /\ [][NextFair]_vars /\ Fairness

\* C9: every NewID call eventually returns.
C9_Returns ==
    \A c \in Callers : (call[c].pc # "idle") ~> (call[c].pc = "idle")

\* a caller resampling the wall clock on an exhausted counter while the other
\* caller is blocked behind it
C9_Witness ==
    \E c, d \in Callers :
        /\ call[c].pc = "wait" /\ mu = c
        /\ call[d].pc = "lock"
        /\ ~TickLess(p.t, internalTime(Now(clock)))

\* C10: the stored tick never decreases.
C10_TickMonotone ==
    [][ctor.pc = "done" => ~TickLess(p'.t, p.t)]_vars

\* a call with a timestamp far in the past has completed after the stored
\* tick advanced
C10_Witness ==
    \E i, j \in 1..Len(log) :
        /\ i < j
        /\ TickLess(log[i].pre.t, log[i].post.t)
        /\ log[j].timestamp = EpochTime
        /\ Returned(j)

(***************************************************************************)
(* A generator with ids and shard indexes that use both bytes of their     *)
(* fields.                                                                 *)
(***************************************************************************)
\* number of NewID calls started in one behaviour of SpecFields
MaxFieldCalls == 5
FieldIds == {256, 65535}
FieldShards == {42, 65535}
FieldTimestamps == {T}

NextFields ==
    \/ Tick
    \/ \E id \in FieldIds : NewProcessStart(id)
    \/ NewProcessPoll
    \/ NewID(1, FieldShards, FieldTimestamps, MaxFieldCalls)

SpecFields == Init /\ [][NextFields]_vars

\* C11: splitting the identifier NewID returns yields the shard index the
\* caller passed, the id of the generator and the sequence number the call
\* was assigned.
C11_FieldFidelity ==
    \A k \in 1..Len(log) :
        Returned(k) =>
            /\ ShardIndex(Split(log[k].id).shard) = log[k].shard
            /\ KeyProcess(Split(log[k].id).key) = p.id
            /\ KeyCounter(Split(log[k].id).key) = log[k].counter

\* a call on a generator whose id fills the high byte returned a sequence
\* number other than 0 for a shard index that fills the high byte
C11_Witness ==
    \E k \in 1..Len(log) :
        /\ Returned(k)
        /\ p.id >= 256
        /\ log[k].shard >= 256
        /\ log[k].counter > 0

\* the truncation of a tick to the whole hour, and the rest
HourStart(t) == [min |-> t.min - (t.min % hourInMinutes), us |-> 0, ns |-> 0]
SinceHour(t) == [min |-> t.min % hourInMinutes, us |-> t.us, ns |-> 0]

\* C12: of every identifier NewID returns, ID.Time is the stored tick the call
\* decided, Shard.Time is that tick truncated to the hour and Key.Time is the
\* duration from the top of that hour to the tick.
C12_Times ==
    \A k \in 1..Len(log) :
        Returned(k) =>
            /\ IDTime(log[k].id) = externalTime(log[k].t)
            /\ ShardTime(Split(log[k].id).shard) = HourStart(log[k].t)
            /\ KeyTime(Split(log[k].id).key) = SinceHour(log[k].t)

\* one returned identifier carries a tick in the last second of an hour, a
\* later one a tick in another hour than its timestamp
C12_Witness ==
    \E j, k \in 1..Len(log) :
        /\ Returned(j)
        /\ Returned(k)
        /\ SinceHour(log[j].t).min = 59
        /\ SecondOf(log[j].t) = 59
        /\ HourOf(log[k].t) # HourOf(internalTime(log[k].timestamp))

(***************************************************************************)
(* The codec on its own: field values are packed as NewID packs them and   *)
(* the identifiers are decoded by every accessor.                          *)
(***************************************************************************)
\* an hour past 2262-04-11, where (Epoch+t)*1000 leaves the int64 range
BigHour == 3000000

\* field values within the ranges of the package documentation
FieldValues ==
    [shard : {1, 256}, hour : {255, 256, BigHour}, minute : {0, 59},
     second : {15, 16, 59}, micro : {255, 256, 999999},
     process : {1, 256}, counter : {255, 256}]
\* the field values of the identifier the first one is compared with
OtherValues ==
    [shard : {1, 256}, hour : {256}, minute : {0, 59},
     second : {15, 16}, micro : {256, 983040},
     process : {1, 256}, counter : {255, 256}]

\* the int64 t of NewID for the fields f
FieldTick(f) == TickOf(f.hour, f.minute, f.second, f.micro)
PackFields(f) == Pack(f.shard, FieldTick(f), f.process, f.counter)

\* every accessor applied to id
Decode(id) ==
    [time      |-> IDTime(id),
     index     |-> ShardIndex(Split(id).shard),
     shardTime |-> ShardTime(Split(id).shard),
     keyTime   |-> KeyTime(Split(id).key),
     process   |-> KeyProcess(Split(id).key),
     counter   |-> KeyCounter(Split(id).key)]

InitCodec ==
    /\ Init!1 /\ Init!2 /\ Init!3 /\ Init!4 /\ Init!5 /\ Init!6
    /\ Init!7 /\ Init!8 /\ Init!9 /\ Init!11
    /\ \E a \in FieldValues, b \in OtherValues :
           codec = [pc |-> "fields", a |-> a, b |-> b]

PackIDs ==
    /\ codec.pc = "fields"
    /\ codec' = [pc |-> "packed", a |-> codec.a, b |-> codec.b,
                 ida |-> PackFields(codec.a), idb |-> PackFields(codec.b)]
    /\ UNCHANGED <<clock, ctor, p, mu, call, log, qvars, vgob>>

DecodeIDs ==
    /\ codec.pc = "packed"
    /\ codec' = [pc |-> "decoded", a |-> codec.a, b |-> codec.b,
                 ida |-> codec.ida, idb |-> codec.idb,
                 da |-> Decode(codec.ida), db |-> Decode(codec.idb)]
    /\ UNCHANGED <<clock, ctor, p, mu, call, log, qvars, vgob>>

NextCodec == PackIDs \/ DecodeIDs

SpecCodec == InitCodec /\ [][NextCodec]_vars

\* byte-wise lexicographic order of two identifiers
LexLess(x, y) ==
    \E i \in 1..16 :
        /\ x[i] < y[i]
        /\ \A j \in 1..(i - 1) : x[j] = y[j]

\* order of the tuples (shard index, tick, generator id, sequence number)
TupleLess(a, b) ==
    \/ a.shard < b.shard
    \/ a.shard = b.shard /\ TickLess(FieldTick(a), FieldTick(b))
    \/ a.shard = b.shard /\ FieldTick(a) = FieldTick(b)
           /\ a.process < b.process
    \/ a.shard = b.shard /\ FieldTick(a) = FieldTick(b)
           /\ a.process = b.process /\ a.counter < b.counter

\* C13: two identifiers packed from in-range fields compare byte-wise as their
\* tuples (shard index, tick, generator id, sequence number) compare.
C13_ByteOrder ==
    codec.pc \in {"packed", "decoded"} =>
        /\ LexLess(codec.ida, codec.idb) <=> TupleLess(codec.a, codec.b)
        /\ LexLess(codec.idb, codec.ida) <=> TupleLess(codec.b, codec.a)
        /\ codec.ida = codec.idb <=> codec.a = codec.b

\* two packed identifiers that differ first in byte 8, where the larger
\* minute comes with the smaller second
C13_Witness ==
    /\ codec.pc = "packed"
    /\ codec.a.shard = codec.b.shard
    /\ codec.a.hour = codec.b.hour
    /\ codec.a.minute > codec.b.minute
    /\ codec.a.second < codec.b.second
    /\ LexLess(codec.idb, codec.ida)

\* the instant and the durations the fields f stand for
FieldTime(f) ==
    [min |-> f.hour * hourInMinutes + f.minute,
     us |-> f.second * secondInMicroseconds + f.micro, ns |-> 0]
FieldHour(f) == [min |-> f.hour * hourInMinutes, us |-> 0, ns |-> 0]
FieldSinceHour(f) ==
    [min |-> f.minute, us |-> f.second * secondInMicroseconds + f.micro,
     ns |-> 0]

\* C17: packing field values within their declared ranges and decoding with
\* the accessors reproduces every field: the shard index, the generator id
\* and the sequence number, the hour through Shard.Time, the minute, second
\* and microsecond through Key.Time, and all of them through ID.Time.
C17_RoundTrip ==
    codec.pc = "decoded" =>
        /\ codec.da.index = codec.a.shard
        /\ codec.da.process = codec.a.process
        /\ codec.da.counter = codec.a.counter
        /\ codec.da.keyTime = FieldSinceHour(codec.a)
        /\ codec.da.shardTime = FieldHour(codec.a)
        /\ codec.da.time = FieldTime(codec.a)

(***************************************************************************)
(* The accessors on arbitrary bytes.                                       *)
(***************************************************************************)
\* the last hour that begins before 2262-04-11T23:47:16.854775807Z, the
\* greatest instant whose nanoseconds since 1970 are an int64
LastHour == 2142935

\* 16-byte inputs: every field all zeros or all ones, byte 8 also with minute
\* 59 and second bits 11; the top byte of the hour stays below 2 to keep the
\* tick within the integers of the checker; and inputs of hour LastHour
ByteIDs ==
    { << i1, i2, r, r, h, hl, hl, hl, m, s, u, u, pr, pr, c, c >> :
        i1 \in {0, 255}, i2 \in {0, 255}, r \in {0, 255}, h \in {0, 1},
        hl \in {0, 255}, m \in {0, 239, 255}, s \in {0, 255},
        u \in {0, 255}, pr \in {0, 255}, c \in {0, 255} }
    \cup
    { << 0, 2, 0, 0,
         byte(shr(LastHour, 24)), byte(shr(LastHour, 16)),
         byte(shr(LastHour, 8)), byte(LastHour),
         m, s, u, u, 0, 1, 0, 0 >> :
        m \in {0, 239, 255}, s \in {0, 255}, u \in {0, 255} }

\* the caller holds some 16 bytes
InputBytes ==
    /\ codec.pc = "none"
    /\ \E id \in ByteIDs : codec' = [pc |-> "bytes", id |-> id]
    /\ UNCHANGED <<clock, ctor, p, mu, call, log, qvars, vgob>>

\* ID.Split, then the accessors of the two halves
SplitBytes ==
    /\ codec.pc = "bytes"
    /\ codec' = [pc |-> "split", id |-> codec.id,
                 shard |-> Split(codec.id).shard, key |-> Split(codec.id).key]
    /\ UNCHANGED <<clock, ctor, p, mu, call, log, qvars, vgob>>

\* the results of the accessors on each input, computed once
Accessors == [id \in ByteIDs |-> Decode(id)]

\* accessors that refuse a minute above 59
AccessBytesChecked ==
    /\ codec.pc = "split"
    /\ IF Accessors[codec.id].keyTime.min > 59
       THEN codec' = [pc |-> "fault", id |-> codec.id]
       ELSE codec' = [pc |-> "done", id |-> codec.id,
                      out |-> Accessors[codec.id]]
    /\ UNCHANGED <<clock, ctor, p, mu, call, log, qvars, vgob>>

AccessBytes ==
    /\ codec.pc = "split"
    /\ codec' = [pc |-> "done", id |-> codec.id,
                 out |-> Accessors[codec.shard \o codec.key]]
    /\ UNCHANGED <<clock, ctor, p, mu, call, log, qvars, vgob>>

NextBytes == InputBytes \/ SplitBytes \/ AccessBytes

\* the accessors are straight-line code: a started decoding runs on
SpecBytes == Init /\ [][NextBytes]_vars /\ WF_vars(SplitBytes \/ AccessBytes)

\* a time.Time or time.Duration value
IsTime(t) ==
    /\ t.us \in 0..(minuteInMicroseconds - 1)
    /\ t.ns \in 0..(Microsecond - 1)

\* no fault, and each accessor has returned a value of its result type
Decoded ==
    /\ codec.pc # "fault"
    /\ codec.pc = "split" =>
           /\ Len(codec.shard) = 8
           /\ Len(codec.key) = 8
    /\ codec.pc = "done" =>
           /\ IsTime(codec.out.time)
           /\ IsTime(codec.out.shardTime)
           /\ IsTime(codec.out.keyTime)
           /\ codec.out.keyTime.min >= 0
           /\ codec.out.index \in 0..65535
           /\ codec.out.process \in 0..65535
           /\ codec.out.counter \in 0..65535

\* C18: ID.Split and the accessors are defined on every input: from every
\* 16-byte input they run to their results, they are never at fault, and
\* each returns a value of its result type.
C18_Total == [](Decoded) /\ (codec.pc = "bytes" ~> codec.pc = "done")

\* the accessors returned for an input whose minute and second bits are 63
\* and whose microsecond bits are 2^20 - 1
C18_Witness ==
    /\ codec.pc = "done"
    /\ codec.id[9] = 255
    /\ codec.id[10] = 255
    /\ codec.id[11] = 255
    /\ codec.out.keyTime.min > 59

(***************************************************************************)
(* The clock conversions on their own.                                     *)
(***************************************************************************)
\* ticks before 1970, before and at Epoch, at T and past 2262
ClockTicks ==
    [min : {0 - EpochMinutes - 1, 0 - 1, 0, THour * hourInMinutes,
            BigHour * hourInMinutes},
     us : {0, 1, minuteInMicroseconds - 1}]
\* times before 1970, before Epoch and at T, on and between microseconds
ClockTimes ==
    [min : {0 - EpochMinutes - 1, 0 - 1, THour * hourInMinutes},
     us : {0, minuteInMicroseconds - 1},
     ns : {0, 1, Microsecond - 1}]

InputClock ==
    /\ codec.pc = "none"
    /\ \E k \in ClockTicks, t \in ClockTimes :
           codec' = [pc |-> "clock", k |-> k, t |-> t]
    /\ UNCHANGED <<clock, ctor, p, mu, call, log, qvars, vgob>>

\* internalTime(externalTime(k)) and externalTime(internalTime(t))
ConvertClock ==
    /\ codec.pc = "clock"
    /\ codec' = [pc |-> "converted", k |-> codec.k, t |-> codec.t,
                 kk |-> internalTime(externalTime(codec.k)),
                 tt |-> externalTime(internalTime(codec.t))]
    /\ UNCHANGED <<clock, ctor, p, mu, call, log, qvars, vgob>>

NextClock == InputClock \/ ConvertClock

SpecClock == Init /\ [][NextClock]_vars

\* t.Truncate(time.Microsecond): the last whole microsecond not after t
Truncate(t) == [min |-> t.min, us |-> t.us, ns |-> 0]

\* C19: the clock conversions are mutually inverse at microsecond resolution:
\* internalTime(externalTime(k)) is k for every tick k, and
\* externalTime(internalTime(t)) is t truncated to the microsecond, never
\* rounded up, for every time t.
C19_Inverse ==
    codec.pc = "converted" =>
        /\ codec.kk = codec.k
        /\ codec.tt = Truncate(codec.t)

(***************************************************************************)
(* A second Process, q.  NewProcess and NewID act on it as they act on p.  *)
(***************************************************************************)
SecondNewProcessStart(id) ==
    /\ qctor.pc = "none"
    /\ qctor' = [pc |-> "poll", t |-> Now(clock)]
    /\ q' = [q EXCEPT !.id = id]
    /\ UNCHANGED <<clock, ctor, p, mu, call, log, qmu, codec, vgob>>

\* NewProcess that returns without waiting for the clock to advance
SecondNewProcessPollNoWait ==
    /\ qctor.pc = "poll"
    /\ qctor' = [pc |-> "done", t |-> Now(clock)]
    /\ q' = [id |-> q.id, counter |-> 0, t |-> internalTime(Now(clock))]
    /\ UNCHANGED <<clock, ctor, p, mu, call, log, qmu, codec, vgob>>

SecondNewProcessPoll ==
    /\ qctor.pc = "poll"
    /\ LET now == Now(clock)
       IN  IF Sub(now, qctor.t) > Microsecond
           THEN /\ qctor' = [pc |-> "done", t |-> now]
                /\ q' = [id |-> q.id, counter |-> 0, t |-> internalTime(now)]
           ELSE UNCHANGED <<qctor, q>>
    /\ UNCHANGED <<clock, ctor, p, mu, call, log, qmu, codec, vgob>>

SecondNewIDCall(c, shard, timestamp, maxCalls) ==
    /\ qctor.pc = "done"
    /\ call[c].pc = "idle"
    /\ Started < maxCalls
    /\ clock < MaxClock
    /\ call' = [call EXCEPT ![c] = [IdleCall EXCEPT !.pc = "lock", !.shard = shard,
                                       !.timestamp = timestamp,
                                       !.ts = internalTime(timestamp),
                                       !.counter = 0]]
    /\ UNCHANGED <<clock, ctor, p, mu, log, qvars, codec, vgob>>

SecondLock(c) ==
    /\ call[c].pc = "lock"
    /\ qmu = 0
    /\ qmu' = c
    /\ call' = [call EXCEPT ![c].pc = "decide", ![c].pre = [counter |-> q.counter, t |-> q.t]]
    /\ UNCHANGED <<clock, ctor, p, mu, log, q, qctor, codec, vgob>>

SecondDecide(c) ==
    /\ call[c].pc = "decide"
    /\ IF TickLess(q.t, call[c].ts)
       THEN /\ q' = [q EXCEPT !.t = call[c].ts, !.counter = 0]
            /\ call' = [call EXCEPT ![c].pc = "unlock"]
       ELSE IF q.counter > MaxUint16
       THEN /\ call' = [call EXCEPT ![c].pc = "wait"]
            /\ UNCHANGED q
       ELSE /\ q' = [q EXCEPT !.counter = q.counter + 1]
            /\ call' = [call EXCEPT ![c].pc = "unlock", ![c].counter = uint16(q.counter)]
    /\ UNCHANGED <<clock, ctor, p, mu, log, qctor, qmu, codec, vgob>>

SecondWait(c) ==
    /\ call[c].pc = "wait"
    /\ LET now == internalTime(Now(clock))
       IN  IF TickLess(q.t, now)
           THEN /\ q' = [q EXCEPT !.t = now, !.counter = 0 + 1]
                /\ call' = [call EXCEPT ![c].pc = "unlock", ![c].counter = uint16(0)]
           ELSE UNCHANGED <<q, call>>
    /\ UNCHANGED <<clock, ctor, p, mu, log, qctor, qmu, codec, vgob>>

SecondUnlock(c) ==
    /\ call[c].pc = "unlock"
    /\ qmu' = 0
    /\ call' = [call EXCEPT ![c].pc = "pack", ![c].t = q.t, ![c].k = Len(log) + 1]
    /\ log' = Append(log, [c |-> c, shard |-> call[c].shard,
                           timestamp |-> call[c].timestamp,
                           pre |-> call[c].pre,
                           post |-> [counter |-> q.counter, t |-> q.t],
                           t |-> q.t, counter |-> call[c].counter,
                           id |-> NoID])
    /\ UNCHANGED <<clock, ctor, p, mu, q, qctor, codec, vgob>>

SecondReturn(c) ==
    /\ call[c].pc = "pack"
    /\ log' = [log EXCEPT ![call[c].k].id =
                  Pack(call[c].shard, call[c].t, q.id, call[c].counter)]
    /\ call' = [call EXCEPT ![c] = IdleCall]
    /\ UNCHANGED <<clock, ctor, p, mu, qvars, codec, vgob>>

SecondNewID(c, shards, timestamps, maxCalls) ==
    \/ \E shard \in shards, timestamp \in timestamps :
           SecondNewIDCall(c, shard, timestamp, maxCalls)
    \/ SecondLock(c)
    \/ SecondDecide(c)
    \/ SecondWait(c)
    \/ SecondUnlock(c)
    \/ SecondReturn(c)

(***************************************************************************)
(* Two generators with distinct ids side by side: caller 1 calls p and     *)
(* caller 2 calls q, in any interleaving.                                  *)
(***************************************************************************)
\* number of NewID calls started in one behaviour of SpecTwo
MaxTwoCalls == 5
\* the id of p, and ids of q that differ from it in the low or the high byte
FirstIds == {1}
SecondIds == {2, 257}
TwoTimestamps == {TAfter}

NextTwo ==
    \/ Tick
    \/ \E id \in FirstIds : NewProcessStart(id)
    \/ NewProcessPoll
    \/ \E id \in SecondIds : SecondNewProcessStart(id)
    \/ SecondNewProcessPoll
    \/ NewID(1, ConcShards, TwoTimestamps, MaxTwoCalls)
    \/ SecondNewID(2, ConcShards, TwoTimestamps, MaxTwoCalls)

SpecTwo == Init /\ [][NextTwo]_vars

\* the calls on p and the calls on q
OfFirst(k) == log[k].c = 1
OfSecond(k) == log[k].c = 2

\* C15: an identifier minted by one of two generators with distinct ids is
\* never equal to an identifier minted by the other.
C15_DistinctGenerators ==
    \A j, k \in 1..Len(log) :
        (OfFirst(j) /\ OfSecond(k) /\ Returned(j) /\ Returned(k)) =>
            log[j].id # log[k].id

\* the two generators minted for the same shard index, tick and sequence
\* number, and their ids differ in the high byte only
C15_Witness ==
    \E j, k \in 1..Len(log) :
        /\ OfFirst(j) /\ OfSecond(k) /\ Returned(j) /\ Returned(k)
        /\ log[j].shard = log[k].shard
        /\ log[j].t = log[k].t
        /\ log[j].counter = log[k].counter
        /\ q.id = p.id + 256

(***************************************************************************)
(* Restart: p is called with timestamps that are not in the future; once   *)
(* its calls have returned it is called no more, and q is constructed      *)
(* with the id of p.                                                       *)
(***************************************************************************)
\* number of NewID calls started in one behaviour of SpecRestart
MaxRestartCalls == 5
OldTimestamps == {TBefore, T}
NewTimestamps == {TBefore, TAfter}

\* NewID on the old instance, with a timestamp no later than the wall clock
OldNewID ==
    \/ \E shard \in ConcShards, timestamp \in OldTimestamps :
           /\ qctor.pc = "none"
           /\ ~NsLess(Now(clock), timestamp)
           /\ NewIDCall(1, shard, timestamp, MaxRestartCalls)
    \/ Lock(1)
    \/ Decide(1)
    \/ Wait(1)
    \/ Unlock(1)
    \/ Return(1)

\* the old instance has stopped; NewProcess is called with its id again
Restart ==
    /\ ctor.pc = "done"
    /\ call[1].pc = "idle"
    /\ SecondNewProcessStart(p.id)

NextRestart ==
    \/ Tick
    \/ NewProcess
    \/ OldNewID
    \/ Restart
    \/ SecondNewProcessPoll
    \/ SecondNewID(2, ConcShards, NewTimestamps, MaxRestartCalls)

SpecRestart == Init /\ [][NextRestart]_vars

\* C16: when every timestamp passed to the old instance was no later than the
\* wall clock at the call, no identifier of the new instance with the same
\* id has the tick and sequence number of an identifier of the old one.
C16_RestartSafe ==
    \A j, k \in 1..Len(log) :
        (OfFirst(j) /\ OfSecond(k)) =>
            ~(log[j].t = log[k].t /\ log[j].counter = log[k].counter)

\* the new instance, constructed in the microsecond of the old one's last
\* tick, returned the same sequence number on the next tick
C16_Witness ==
    \E j, k \in 1..Len(log) :
        /\ OfFirst(j) /\ OfSecond(k) /\ Returned(j) /\ Returned(k)
        /\ q.id = p.id
        /\ log[k].counter = log[j].counter
        /\ log[k].t = internalTime(AddNs(externalTime(log[j].t), Microsecond))

(***************************************************************************)
(* Two generators, the first called with timestamps one hour apart.        *)
(***************************************************************************)
\* number of NewID calls started in one behaviour of SpecHours
MaxHourCalls == 5
\* TAfter, and the same instant of the next hour
HourTimestamps == {TAfter, [TAfter EXCEPT !.min = TAfter.min + hourInMinutes]}
\* the id of the second generator
HourIds == {257}

\* one caller calls the two generators in turn
FirstNewIDInTurn ==
    \/ \E shard \in ConcShards, timestamp \in HourTimestamps :
           /\ call[2].pc = "idle"
           /\ NewIDCall(1, shard, timestamp, MaxHourCalls)
    \/ Lock(1)
    \/ Decide(1)
    \/ Wait(1)
    \/ Unlock(1)
    \/ Return(1)

SecondNewIDInTurn ==
    \/ \E shard \in ConcShards, timestamp \in TwoTimestamps :
           /\ call[1].pc = "idle"
           /\ SecondNewIDCall(2, shard, timestamp, MaxHourCalls)
    \/ SecondLock(2)
    \/ SecondDecide(2)
    \/ SecondWait(2)
    \/ SecondUnlock(2)
    \/ SecondReturn(2)

NextHours ==
    \/ Tick
    \/ \E id \in FirstIds : NewProcessStart(id)
    \/ NewProcessPoll
    \/ \E id \in HourIds : SecondNewProcessStart(id)
    \/ SecondNewProcessPoll
    \/ FirstNewIDInTurn
    \/ SecondNewIDInTurn

SpecHours == Init /\ [][NextHours]_vars

MaxDecodes == 3
GobTypes == {"S", "T"}
GobValues == [typ : GobTypes, V : {"", "a"}]
\* schema versions with a one-byte and a two-byte prefix
Versions == {1, 300}

\* a pointer to v
Ptr(v) == [ptr |-> v]
\* the value that v is or, through any number of pointers, points to
RECURSIVE Elem(_)
Elem(v) == IF "ptr" \in DOMAIN v THEN Elem(v.ptr) ELSE v

\* the type of v after its pointers are dereferenced
getType(v) == Elem(v).typ

TypeMsg(typ) == [kind |-> "type", typ |-> typ]
ValueMsg(v) ==
    [kind |-> "value", typ |-> v.typ,
     fields |-> IF v.V = "" THEN <<>> ELSE <<v.V>>]

\* gob.Encoder.Encode by an encoder that has sent the definitions in sent
GobEncode(sent, v) ==
    [out |-> (IF v.typ \in sent THEN <<>> ELSE <<TypeMsg(v.typ)>>)
                 \o <<ValueMsg(v)>>,
     sent |-> sent \cup {v.typ}]

\* gob.Decoder.Decode by a decoder that has received the definitions in known
RECURSIVE GobDecode(_, _, _)
GobDecode(known, stream, dest) ==
    IF stream = <<>>
    THEN [err |-> "EOF", known |-> known, dest |-> dest]
    ELSE LET msg == Head(stream)
         IN  IF msg.kind = "type"
             THEN IF msg.typ \in known
                  THEN [err |-> "duplicate type received", known |-> known,
                        dest |-> dest]
                  ELSE GobDecode(known \cup {msg.typ}, Tail(stream), dest)
             ELSE IF msg.kind = "value"
             THEN IF msg.typ \notin known
                  THEN [err |-> "type not defined", known |-> known,
                        dest |-> dest]
                  ELSE [err |-> "", known |-> known,
                        dest |-> IF msg.fields = <<>> THEN dest
                                 ELSE [dest EXCEPT !.V = msg.fields[1]]]
             ELSE [err |-> "corrupted data", known |-> known, dest |-> dest]

\* binary.PutUvarint: seven bits a byte, low bits first
RECURSIVE PutUvarint(_)
PutUvarint(x) ==
    IF x < 128 THEN <<[kind |-> "byte", b |-> x]>>
    ELSE <<[kind |-> "byte", b |-> or(byte(x), 128)]>> \o PutUvarint(shr(x, 7))

\* binary.ReadUvarint: the value read and the rest of the reader
RECURSIVE ReadUvarint(_)
ReadUvarint(r) ==
    IF r = <<>> \/ Head(r).kind # "byte"
    THEN [err |-> "EOF", ver |-> 0, rest |-> r]
    ELSE IF Head(r).b < 128
    THEN [err |-> "", ver |-> Head(r).b, rest |-> Tail(r)]
    ELSE LET high == ReadUvarint(Tail(r))
         IN  [err |-> high.err,
              ver |-> or(and(Head(r).b, 127), high.ver * 128),
              rest |-> high.rest]

\* NewMarshaler whose encoder has not encoded v
NewMarshalerNoEncode(v) ==
    /\ vgob.m = None
    /\ vgob' = [vgob EXCEPT !.m =
                   [typ |-> getType(v),
                    schema |-> [data |-> GobEncode({}, Elem(v)).out, ver |-> 0],
                    enc |-> {}]]
    /\ UNCHANGED <<clock, ctor, p, mu, call, log, qvars, codec>>

\* NewMarshaler: newEncoder encodes v once, encodeBytes encodes it afresh
NewMarshaler(v) ==
    /\ vgob.m = None
    /\ vgob' = [vgob EXCEPT !.m =
                   [typ |-> getType(v),
                    schema |-> [data |-> GobEncode({}, Elem(v)).out, ver |-> 0],
                    enc |-> GobEncode({}, Elem(v)).sent]]
    /\ UNCHANGED <<clock, ctor, p, mu, call, log, qvars, codec>>

SetVersion(version) ==
    /\ vgob.m # None
    /\ vgob' = [vgob EXCEPT !.m.schema.ver = version]
    /\ UNCHANGED <<clock, ctor, p, mu, call, log, qvars, codec>>

\* Marshal that writes the version prefix whatever the version is
MarshalAnyVersion(v) ==
    /\ vgob.m # None
    /\ IF getType(v) # vgob.m.typ
       THEN vgob' = [vgob EXCEPT !.merr = "expect type"]
       ELSE vgob' = [vgob EXCEPT
                        !.data = PutUvarint(vgob.m.schema.ver)
                                     \o GobEncode(vgob.m.enc, Elem(v)).out,
                        !.m.enc = GobEncode(vgob.m.enc, Elem(v)).sent,
                        !.v = Elem(v),
                        !.merr = "",
                        !.results = <<>>]
    /\ UNCHANGED <<clock, ctor, p, mu, call, log, qvars, codec>>

\* Marshal without the type check
MarshalUnchecked(v) ==
    /\ vgob.m # None
    /\ IF vgob.m.schema.ver = 0
       THEN vgob' = [vgob EXCEPT !.merr = "schema version is not set"]
       ELSE vgob' = [vgob EXCEPT
                        !.data = PutUvarint(vgob.m.schema.ver)
                                     \o GobEncode(vgob.m.enc, Elem(v)).out,
                        !.m.enc = GobEncode(vgob.m.enc, Elem(v)).sent,
                        !.v = Elem(v),
                        !.merr = "",
                        !.results = <<>>]
    /\ UNCHANGED <<clock, ctor, p, mu, call, log, qvars, codec>>

\* Marshal: the type check, the version prefix, then the value by m.enc
Marshal(v) ==
    /\ vgob.m # None
    /\ IF getType(v) # vgob.m.typ
       THEN vgob' = [vgob EXCEPT !.merr = "expect type"]
       ELSE IF vgob.m.schema.ver = 0
       THEN vgob' = [vgob EXCEPT !.merr = "schema version is not set"]
       ELSE vgob' = [vgob EXCEPT
                        !.data = PutUvarint(vgob.m.schema.ver)
                                     \o GobEncode(vgob.m.enc, Elem(v)).out,
                        !.m.enc = GobEncode(vgob.m.enc, Elem(v)).sent,
                        !.v = Elem(v),
                        !.merr = "",
                        !.results = <<>>]
    /\ UNCHANGED <<clock, ctor, p, mu, call, log, qvars, codec>>

\* NewUnmarshaler(v, {version: NewSchema(m.Schema().Bytes(), version)}):
\* newDecoder decodes the schema data into v
NewUnmarshaler(v, version) ==
    /\ vgob.m # None
    /\ vgob.u = None
    /\ LET dec == GobDecode({}, vgob.m.schema.data, Elem(v))
       IN  /\ dec.err = ""
           /\ vgob' = [vgob EXCEPT !.u =
                          [typ |-> getType(v),
                           decs |-> [ver \in {version} |-> dec.known]]]
    /\ UNCHANGED <<clock, ctor, p, mu, call, log, qvars, codec>>

\* what Unmarshal(vgob.data, &dest) leaves in dest and returns
Unmarshaled(dest) ==
    LET hdr == ReadUvarint(vgob.data)
        result(res, err) ==
            [ver |-> hdr.ver, dest |-> dest, res |-> res, err |-> err]
    IN  IF getType(dest) # vgob.u.typ
        THEN [known |-> {}, result |-> result(Elem(dest), "expect type")]
        ELSE IF hdr.err # ""
        THEN [known |-> {}, result |-> result(Elem(dest), hdr.err)]
        ELSE IF hdr.ver \notin DOMAIN vgob.u.decs
        THEN [known |-> {}, result |-> result(Elem(dest), "missing dec for the version")]
        ELSE LET d == GobDecode(vgob.u.decs[hdr.ver], hdr.rest, Elem(dest))
             IN  [known |-> d.known, result |-> result(d.dest, d.err)]

Unmarshal(dest) ==
    /\ vgob.u # None
    /\ Len(vgob.results) < MaxDecodes
    /\ LET r == Unmarshaled(dest)
       IN  vgob' = [vgob EXCEPT
                       !.results = Append(vgob.results, r.result),
                       !.u.decs = [ver \in DOMAIN vgob.u.decs |->
                                      IF r.known # {} /\ ver = r.result.ver
                                      THEN r.known ELSE vgob.u.decs[ver]]]
    /\ UNCHANGED <<clock, ctor, p, mu, call, log, qvars, codec>>

NextVgob ==
    \/ \E v \in GobValues : NewMarshaler(v)
    \/ \E version \in Versions : SetVersion(version)
    \/ \E v \in GobValues : Marshal(v)
    \/ \E v \in GobValues, version \in Versions : NewUnmarshaler(v, version)
    \/ \E dest \in GobValues : Unmarshal(dest)

SpecVgob == Init /\ [][NextVgob]_vars

\* an Unmarshal of data marshaled from vgob.v, by an Unmarshaler for the type
\* of vgob.v that holds the Marshaler's schema under the version of the data,
\* into a destination of that type
OfMarshaled(e) ==
    /\ vgob.v # None
    /\ vgob.u.typ = vgob.v.typ
    /\ e.dest.typ = vgob.v.typ
    /\ e.ver \in DOMAIN vgob.u.decs

\* C20 as claimed: the data is decoded into a value equal to v, whatever the
\* destination holds, every time.
C20_RoundTripAnyDest ==
    \A i \in 1..Len(vgob.results) :
        OfMarshaled(vgob.results[i]) =>
            /\ vgob.results[i].err = ""
            /\ vgob.results[i].res = vgob.v

\* C20: the data is decoded into a destination that holds the zero value as a
\* value equal to v, every time the same Unmarshaler decodes it.
C20_RoundTrip ==
    \A i \in 1..Len(vgob.results) :
        (OfMarshaled(vgob.results[i])
             /\ vgob.results[i].dest.V = "") =>
            /\ vgob.results[i].err = ""
            /\ vgob.results[i].res = vgob.v

\* one Unmarshaler decoded the same data with a two-byte version prefix three
\* times in a row into zero values
C20_Witness ==
    /\ Len(vgob.results) = MaxDecodes
    /\ \A i \in 1..Len(vgob.results) :
           /\ OfMarshaled(vgob.results[i])
           /\ vgob.results[i].dest.V = ""
           /\ vgob.v.V = "a"
           /\ vgob.results[i].ver = 300
           /\ vgob.results[i].res = vgob.v

(***************************************************************************)
(* The type checks of Marshal and Unmarshal, on values, pointers to values *)
(* and pointers to pointers.                                               *)
(***************************************************************************)
TypeValues ==
    LET zero == [typ : GobTypes, V : {""}]
    IN  zero \cup {Ptr(v) : v \in zero} \cup {Ptr(Ptr(v)) : v \in zero}

NextTypes ==
    \/ \E v \in TypeValues : NewMarshaler(v)
    \/ \E version \in Versions : SetVersion(version)
    \/ \E v \in TypeValues : Marshal(v)
    \/ \E v \in TypeValues, version \in Versions : NewUnmarshaler(v, version)
    \/ \E dest \in TypeValues : Unmarshal(dest)

SpecTypes == Init /\ [][NextTypes]_vars

\* C21: a Marshal of a value whose type, after its pointers are dereferenced,
\* is not the Marshaler's returns the type error, produces no data and leaves
\* the encoder as it is; an Unmarshal into a destination of another type
\* than the Unmarshaler's returns the type error and leaves the destination
\* and every decoder as they are; whatever the version and the data.
C21_TypeCheck ==
    [][/\ \A v \in TypeValues :
              (Marshal(v) /\ getType(v) # vgob.m.typ) =>
                  /\ vgob'.merr = "expect type"
                  /\ vgob'.m = vgob.m
                  /\ vgob'.data = vgob.data
       /\ \A dest \in TypeValues :
              (Unmarshal(dest) /\ getType(dest) # vgob.u.typ) =>
                  /\ vgob'.results[Len(vgob'.results)].err = "expect type"
                  /\ vgob'.results[Len(vgob'.results)].res = Elem(dest)
                  /\ vgob'.u = vgob.u]_vars

\* with a version set and data marshaled, a Marshal has returned the type
\* error, and the Unmarshaler has returned it for a pointer to a pointer
\* after it decoded the data into a destination of its own type
C21_Witness ==
    /\ vgob.merr = "expect type"
    /\ vgob.m.schema.ver # 0
    /\ vgob.data # <<>>
    /\ \E i, j \in 1..Len(vgob.results) :
           /\ i < j
           /\ vgob.results[i].err = ""
           /\ vgob.results[j].err = "expect type"
           /\ vgob.results[j].dest = Ptr(Ptr([typ |-> "T", V |-> ""]))

(***************************************************************************)
(* The counter and the identifiers issued on the stored tick.              *)
(***************************************************************************)
\* C22: after every NewID call the counter equals the number of identifiers
\* issued so far with the stored tick; a call that advances the stored tick
\* issues sequence number 0 and leaves the counter at 1.
C22_CounterCounts ==
    \A k \in 1..Len(log) :
        /\ log[k].post.counter = Cardinality(OnTick(log[k].post.t, k + 1))
        /\ log[k].post.t # log[k].pre.t =>
               (log[k].counter = 0 /\ log[k].post.counter = 1)

\* C23: the counter never exceeds MaxUint16+1; a call is in the loop that
\* reads the wall clock only when its timestamp is not later than the stored
\* tick, the counter is not 0 and every sequence number 0..MaxUint16 was
\* assigned on the stored tick; every sequence number is in 0..MaxUint16,
\* equals the counter it was converted from, and is the one the identifier
\* carries.
C23_OverflowBoundary ==
    /\ p.counter <= MaxUint16 + 1
    /\ \A c \in Callers :
           call[c].pc = "wait" =>
               /\ ~TickLess(p.t, call[c].ts)
               /\ p.counter # 0
               /\ {log[j].counter : j \in OnTick(p.t, Len(log) + 1)} = 0..MaxUint16
    /\ \A k \in 1..Len(log) :
           /\ log[k].counter \in 0..MaxUint16
           /\ Continues(k) => log[k].counter = log[k].pre.counter
           /\ Returned(k) => Counter(log[k].id) = log[k].counter

\* a call reads the wall clock after the identifier with sequence number
\* MaxUint16 was returned on the stored tick
C23_Witness ==
    \E c \in Callers, k \in 1..Len(log) :
        /\ call[c].pc = "wait"
        /\ Returned(k) /\ log[k].t = p.t
        /\ Counter(log[k].id) = MaxUint16

\* C24: the identifier a call returns is packed from the stored tick and the
\* sequence number the call had decided when it unlocked, whatever the
\* Process holds when the call packs.
C24_PackedFromDecision ==
    [][\A c \in Callers :
           Return(c) =>
               log'[call[c].k].id =
                   Pack(call[c].shard, log[call[c].k].post.t, p.id,
                        log[call[c].k].counter)]_vars

\* a call has unlocked and not yet packed, and meanwhile the other caller
\* has run a whole call that changed the stored tick and the counter
C24_Witness ==
    \E c \in Callers :
        /\ call[c].pc = "pack"
        /\ call[c].k < Len(log)
        /\ Returned(call[c].k + 1)
        /\ log[call[c].k + 1].c # c
        /\ p.t # log[call[c].k].post.t
        /\ p.counter # log[call[c].k].post.counter

(***************************************************************************)
(* Construction.                                                           *)
(***************************************************************************)
\* C25: NewProcess returns only on a wall clock sample more than one
\* microsecond after the one it took when it began; the Process it returns
\* holds a tick strictly greater than the tick of that first sample and the
\* counter 0; until then no NewID call starts.
C25_ConstructionWaits ==
    [][/\ (NewProcessPoll /\ ctor'.pc = "done") =>
              /\ Sub(Now(clock), ctor.t) > Microsecond
              /\ TickLess(internalTime(ctor.t), p'.t)
              /\ p'.t = internalTime(Now(clock))
              /\ p'.counter = 0
       /\ (NewProcessPoll /\ Sub(Now(clock), ctor.t) <= Microsecond) =>
              ctor'.pc = "poll"
       /\ ctor.pc # "done" => (log' = <<>> /\ \A c \in Callers : call'[c].pc = "idle")]_vars

\* NewProcess began between two ticks, polled the wall clock in vain more
\* than once and has returned
C25_Witness ==
    /\ ctor.pc = "done"
    /\ log = <<>>
    /\ p.counter = 0
    /\ p.t = internalTime(ctor.t)
    /\ \E h \in 0..clock :
           /\ Now(h).ns # 0
           /\ Sub(ctor.t, Now(h)) > Microsecond
           /\ Sub(ctor.t, Now(h + 2)) > 0

(***************************************************************************)
(* Order of the identifiers of one generator.                              *)
(***************************************************************************)
\* C26: every identifier a generator returns is byte-wise greater than every
\* identifier it returned for the same shard index from an earlier critical
\* section.
C26_Increasing ==
    \A i, j \in 1..Len(log) :
        (i < j /\ Returned(i) /\ Returned(j) /\ log[i].shard = log[j].shard)
        => LexLess(log[i].id, log[j].id)

(***************************************************************************)
(* Well-formed identifiers.                                                *)
(***************************************************************************)
\* C27: in every identifier NewID returns, bytes 2 and 3 are zero and the
\* minute, second and microsecond that ID.Time reads from bytes 8..11 are in
\* 0..59, 0..59 and 0..999999.
C27_WellFormed ==
    \A k \in 1..Len(log) :
        Returned(k) =>
            LET id     == log[k].id
                minute == shr(and(id[9], 252), 2)
                second == or(shl8(and(id[9], 3), 4), shr(id[10], 4))
                micro  == or(or(and(id[10], 15) * 2^16, id[11] * 2^8), id[12])
            IN  /\ Len(id) = 16
                /\ \A i \in 1..16 : id[i] \in 0..255
                /\ id[3] = 0 /\ id[4] = 0
                /\ minute \in 0..59
                /\ second \in 0..59
                /\ micro \in 0..(secondInMicroseconds - 1)

\* identifiers were returned for the last microsecond of an hour and for the
\* first microsecond of the next
C27_Witness ==
    \E i, j \in 1..Len(log) :
        /\ Returned(i) /\ Returned(j)
        /\ log[i].t = internalTime(TBefore)
        /\ log[i].id[9] = 59 * 4 + 3
        /\ log[j].t = internalTime(T)
        /\ log[j].id[9] = 0

(***************************************************************************)
(* Two generators called until one of them exhausts its counter: caller 1  *)
(* calls p and caller 2 calls q with a timestamp far in the past.          *)
(***************************************************************************)
\* number of NewID calls started in one behaviour of SpecApart
MaxApartCalls == 6
ApartShards == {2}
ApartTimestamps == {EpochTime}

NextApart ==
    \/ Tick
    \/ \E id \in FirstIds : NewProcessStart(id)
    \/ NewProcessPoll
    \/ \E id \in FirstIds : SecondNewProcessStart(id + 1)
    \/ SecondNewProcessPoll
    \/ NewID(1, ApartShards, ApartTimestamps, MaxApartCalls)
    \/ SecondNewID(2, ApartShards, ApartTimestamps, MaxApartCalls)

SpecApart == Init /\ [][NextApart]_vars

\* C28: a call on one Process that has reached Lock can take the mutex
\* whenever no call on the same Process holds it, whatever a call on the
\* other Process is doing; a step of a call on one Process leaves the other
\* Process, its mutex and its construction unchanged; and no step changes
\* the id of a constructed Process.
C28_Independent ==
    /\ [](/\ (call[1].pc = "lock" /\ mu = 0) => ENABLED Lock(1)
          /\ (call[2].pc = "lock" /\ qmu = 0) => ENABLED SecondLock(2)
          /\ mu \in {0, 1} /\ qmu \in {0, 2})
    /\ [][/\ call'[1] # call[1] => (q' = q /\ qmu' = qmu /\ qctor' = qctor)
          /\ call'[2] # call[2] => (p' = p /\ mu' = mu /\ ctor' = ctor)
          /\ ctor.pc = "done" => p'.id = p.id
          /\ qctor.pc = "done" => q'.id = q.id]_vars

\* the call on q is in its overflow wait, which the wall clock has not yet
\* ended, while a call on p is inside its critical section
C28_Witness ==
    /\ call[2].pc = "wait" /\ qmu = 2
    /\ ~TickLess(q.t, internalTime(Now(clock)))
    /\ call[1].pc = "decide" /\ mu = 1
    /\ p.id # q.id

(***************************************************************************)
(* Two generators with the same id, called with the same timestamps and    *)
(* with different shard indexes: caller 1 calls p, caller 2 calls q.       *)
(***************************************************************************)
\* number of NewID calls started in one behaviour of SpecShards
MaxShardCalls == 5
FirstShards == {2}
SecondShards == {65535}
ShardTimestamps == {T}

\* one caller calls the two generators in turn
NextShards ==
    \/ Tick
    \/ \E id \in FirstIds : NewProcessStart(id)
    \/ NewProcessPoll
    \/ \E id \in FirstIds : SecondNewProcessStart(id)
    \/ SecondNewProcessPoll
    \/ \E shard \in FirstShards, timestamp \in ShardTimestamps :
           /\ call[2].pc = "idle"
           /\ NewIDCall(1, shard, timestamp, MaxShardCalls)
    \/ Lock(1)
    \/ Decide(1)
    \/ Wait(1)
    \/ Unlock(1)
    \/ Return(1)
    \/ \E shard \in SecondShards, timestamp \in ShardTimestamps :
           /\ call[1].pc = "idle"
           /\ SecondNewIDCall(2, shard, timestamp, MaxShardCalls)
    \/ SecondLock(2)
    \/ SecondDecide(2)
    \/ SecondWait(2)
    \/ SecondUnlock(2)
    \/ SecondReturn(2)

SpecShards == Init /\ [][NextShards]_vars

\* a call on p and a call on q that found the same stored tick and counter
\* and had the same timestamp and, where they resampled the wall clock, took
\* the same sample
SameButShard(i, j) ==
    /\ OfFirst(i) /\ OfSecond(j) /\ Returned(i) /\ Returned(j)
    /\ log[i].pre = log[j].pre
    /\ log[i].timestamp = log[j].timestamp
    /\ (log[i].pre.counter > MaxUint16 /\ ~TickLess(log[i].pre.t, Requested(i)))
           => log[i].post.t = log[j].post.t

\* C29: two calls that differ in the shard index only leave the same stored
\* tick and counter and return identifiers that are equal in bytes 2..15;
\* bytes 0 and 1 are the shard index.
C29_ShardOnlyInIndex ==
    \A i, j \in 1..Len(log) :
        SameButShard(i, j) =>
            /\ log[i].post = log[j].post
            /\ log[i].counter = log[j].counter
            /\ SubSeq(log[i].id, 3, 16) = SubSeq(log[j].id, 3, 16)
            /\ Split(log[i].id).key = Split(log[j].id).key
            /\ Index(log[i].id) = log[i].shard
            /\ Index(log[j].id) = log[j].shard

\* such calls, with shard indexes that differ in both bytes, on a tick on
\* which identifiers had been issued before
C29_Witness ==
    \E i, j \in 1..Len(log) :
        /\ SameButShard(i, j)
        /\ log[i].pre.counter > 0
        /\ log[i].id[1] # log[j].id[1]
        /\ log[i].id[2] # log[j].id[2]

(***************************************************************************)
(* ID.Split on arbitrary bytes.                                            *)
(***************************************************************************)
\* C30: the Shard Split returns is bytes 0..7 of the identifier and the Key
\* is bytes 8..15, the Shard followed by the Key is the identifier, and
\* Split leaves the identifier as it was.
C30_SplitCopies ==
    /\ [](codec.pc = "split" =>
              /\ Len(codec.id) = 16
              /\ Len(codec.shard) = 8
              /\ Len(codec.key) = 8
              /\ \A i \in 1..8 :
                     /\ codec.shard[i] = codec.id[i]
                     /\ codec.key[i] = codec.id[i + 8]
              /\ codec.shard \o codec.key = codec.id)
    /\ [][SplitBytes => codec'.id = codec.id]_vars

\* Split has returned the halves of an identifier whose halves differ in
\* every byte
C30_Witness ==
    /\ codec.pc = "split"
    /\ \A i \in 1..8 : codec.id[i] # codec.id[i + 8]
    /\ codec.shard # codec.key

(***************************************************************************)
(* ID.Time and the accessors of the halves.                                *)
(***************************************************************************)
\* C31: of every 16 bytes, ID.Time is the time.Time that Shard.Time of the
\* first half returns, advanced by the time.Duration that Key.Time of the
\* second half returns.
C31_TimeOfHalves ==
    codec.pc = "done" =>
        codec.out.time = NsPlus(codec.out.shardTime, codec.out.keyTime)

(***************************************************************************)
(* The version checks of Marshal and Unmarshal.  SetVersion accepts 0,     *)
(* which unsets the version.                                               *)
(***************************************************************************)
AnyVersions == {0} \cup Versions

NextVersions ==
    \/ \E v \in GobValues : NewMarshaler(v)
    \/ \E version \in AnyVersions : SetVersion(version)
    \/ \E v \in GobValues : Marshal(v)
    \/ \E v \in GobValues, version \in Versions : NewUnmarshaler(v, version)
    \/ \E dest \in GobValues : Unmarshal(dest)

SpecVersions == Init /\ [][NextVersions]_vars

\* C32: a Marshal while the version of the schema is 0 returns an error,
\* produces no data and leaves the Marshaler as it is; an Unmarshal of data
\* whose version prefix has no decoder in the Unmarshaler returns an error
\* and leaves the destination and every decoder as they are.
C32_VersionChecks ==
    [][/\ \A v \in GobValues :
              (Marshal(v) /\ vgob.m.schema.ver = 0) =>
                  /\ vgob'.merr # ""
                  /\ getType(v) = vgob.m.typ =>
                         vgob'.merr = "schema version is not set"
                  /\ vgob'.data = vgob.data
                  /\ vgob'.v = vgob.v
                  /\ vgob'.m = vgob.m
       /\ \A dest \in GobValues :
              (/\ Unmarshal(dest)
               /\ ReadUvarint(vgob.data).err = ""
               /\ ReadUvarint(vgob.data).ver \notin DOMAIN vgob.u.decs) =>
                  /\ vgob'.results[Len(vgob'.results)].err # ""
                  /\ getType(dest) = vgob.u.typ =>
                         vgob'.results[Len(vgob'.results)].err
                             = "missing dec for the version"
                  /\ vgob'.results[Len(vgob'.results)].res = dest
                  /\ vgob'.u = vgob.u]_vars

\* the Unmarshaler, which had decoded data of its version, has refused data
\* of a version it has no decoder for, and the Marshaler, whose version was
\* then set to 0, has refused to marshal
C32_Witness ==
    /\ vgob.merr = "schema version is not set"
    /\ vgob.m.schema.ver = 0
    /\ vgob.data # <<>>
    /\ \E i \in 1..Len(vgob.results) :
           /\ getType(vgob.results[i].dest) = vgob.u.typ
           /\ vgob.results[i].err = "missing dec for the version"
    /\ \E ver \in DOMAIN vgob.u.decs : ver # ReadUvarint(vgob.data).ver

(***************************************************************************)
(* SchemaStore.  The schema of a type is the gob encoding of its zero      *)
(* value by a fresh Encoder; schema.Versions maps schemas to versions and  *)
(* is given as a function on the schemas it holds.  A nil reflect.Type is  *)
(* the type "".                                                            *)
(***************************************************************************)
\* number of RegisterName calls in one behaviour
MaxRegisters == 4
Names == {"a", "b"}
StoreTypes == GobTypes \cup {"U"}
StoreValues == [typ : StoreTypes, V : {""}]

\* the zero value of a type
Zero(typ) == [typ |-> typ, V |-> ""]
encodeSchema(typ) == GobEncode({}, Zero(typ)).out

\* m[k] of a Go map with values of type uint
Lookup(m, k) == IF k \in DOMAIN m THEN m[k] ELSE 0

\* RegisterName numbering a new schema with the number of versions recorded
RegisterNameCount(name, v) ==
    /\ Len(vgob.store.regs) < MaxRegisters
    /\ LET typ == getType(v)
           schemaStr == encodeSchema(typ)
           schemas == vgob.store.schemas
       IN  vgob' = [vgob EXCEPT
               !.store.regs = Append(@, [name |-> name, schema |-> schemaStr]),
               !.store.schemas =
                   IF name \in DOMAIN schemas
                   THEN [schemas EXCEPT ![name] =
                            [typ |-> typ,
                             Versions |->
                                 IF Lookup(@.Versions, schemaStr) = 0
                                 THEN @.Versions @@
                                      (schemaStr :> Cardinality(DOMAIN @.Versions))
                                 ELSE @.Versions]]
                   ELSE schemas @@
                        (name :> [typ |-> typ, Versions |-> (schemaStr :> 1)])]
    /\ UNCHANGED <<clock, ctor, p, mu, call, log, qvars, codec>>

RegisterName(name, v) ==
    /\ Len(vgob.store.regs) < MaxRegisters
    /\ LET typ == getType(v)
           schemaStr == encodeSchema(typ)
           schemas == vgob.store.schemas
       IN  vgob' = [vgob EXCEPT
               !.store.regs = Append(@, [name |-> name, schema |-> schemaStr]),
               !.store.schemas =
                   IF name \in DOMAIN schemas
                   THEN [schemas EXCEPT ![name] =
                            [typ |-> typ,
                             Versions |->
                                 IF Lookup(@.Versions, schemaStr) = 0
                                 THEN @.Versions @@
                                      (schemaStr :> Cardinality(DOMAIN @.Versions) + 1)
                                 ELSE @.Versions]]
                   ELSE schemas @@
                        (name :> [typ |-> typ, Versions |-> (schemaStr :> 1)])]
    /\ UNCHANGED <<clock, ctor, p, mu, call, log, qvars, codec>>

\* Save: gob encodes the exported field Versions of every schema
Save ==
    /\ vgob' = [vgob EXCEPT !.store.file =
                   [typ |-> "file", regs |-> vgob.store.regs,
                    schemas |-> [name \in DOMAIN vgob.store.schemas |->
                                    vgob.store.schemas[name].Versions]]]
    /\ UNCHANGED <<clock, ctor, p, mu, call, log, qvars, codec>>

\* NewSchemaStore: the schemas of the file, without types, or none; regs is
\* the sequence of registrations that made them
NewSchemaStore ==
    /\ vgob' = [vgob EXCEPT
               !.store.regs = IF vgob.store.file = None THEN <<>>
                              ELSE vgob.store.file.regs,
               !.store.schemas =
                   IF vgob.store.file = None THEN <<>>
                   ELSE [name \in DOMAIN vgob.store.file.schemas |->
                            [typ |-> "",
                             Versions |-> vgob.store.file.schemas[name]]]]
    /\ UNCHANGED <<clock, ctor, p, mu, call, log, qvars, codec>>

\* SchemaStore.NewMarshaler: an encoder of the registered type, and the
\* number of versions recorded under the name
StoreNewMarshaler(name) ==
    /\ name \in DOMAIN vgob.store.schemas
    /\ LET schema == vgob.store.schemas[name]
       IN  /\ schema.typ # ""
           /\ vgob' = [vgob EXCEPT !.store.m =
                          [typ |-> schema.typ,
                           enc |-> GobEncode({}, Zero(schema.typ)).sent,
                           ver |-> Cardinality(DOMAIN schema.Versions)]]
    /\ UNCHANGED <<clock, ctor, p, mu, call, log, qvars, codec>>

\* the schema recorded with a version
SchemaOf(Vs, version) == CHOOSE schemaData \in DOMAIN Vs : Vs[schemaData] = version

\* SchemaStore.NewUnmarshaler: for every recorded version a decoder that has
\* decoded the schema of that version (schema: the schema it was made from)
StoreNewUnmarshaler(name) ==
    /\ name \in DOMAIN vgob.store.schemas
    /\ LET schema == vgob.store.schemas[name]
           vers == {schema.Versions[d] : d \in DOMAIN schema.Versions}
           dec(version) == GobDecode({}, SchemaOf(schema.Versions, version),
                                     Zero(schema.typ))
       IN  /\ schema.typ # ""
           /\ \A version \in vers : dec(version).err = ""
           /\ vgob' = [vgob EXCEPT !.store.u =
                          [typ |-> schema.typ,
                           decs |-> [version \in vers |->
                                        [schema |-> SchemaOf(schema.Versions, version),
                                         known |-> dec(version).known]]]]
    /\ UNCHANGED <<clock, ctor, p, mu, call, log, qvars, codec>>

\* Marshaler.Marshal of the store's Marshaler
StoreMarshal(v) ==
    /\ vgob.store.m # None
    /\ vgob' = [vgob EXCEPT
           !.store.data = PutUvarint(vgob.store.m.ver)
                              \o GobEncode(vgob.store.m.enc, Elem(v)).out,
           !.store.m.enc = GobEncode(vgob.store.m.enc, Elem(v)).sent,
           !.store.v = Elem(v),
           !.store.out = None]
    /\ UNCHANGED <<clock, ctor, p, mu, call, log, qvars, codec>>

\* Unmarshaler.Unmarshal of the store's Unmarshaler: the version read, the
\* definitions the selected decoder had received, the value and the error
StoreUnmarshal(dest) ==
    /\ vgob.store.u # None
    /\ vgob.store.data # <<>>
    /\ vgob.store.out = None
    /\ LET hdr == ReadUvarint(vgob.store.data)
       IN  IF hdr.err # ""
           THEN vgob' = [vgob EXCEPT !.store.out =
                            [typ |-> "out", ver |-> 0, dec |-> {},
                             res |-> Elem(dest), err |-> hdr.err]]
           ELSE IF hdr.ver \notin DOMAIN vgob.store.u.decs
           THEN vgob' = [vgob EXCEPT !.store.out =
                            [typ |-> "out", ver |-> hdr.ver, dec |-> {},
                             res |-> Elem(dest),
                             err |-> "missing dec for the version"]]
           ELSE LET d == GobDecode(vgob.store.u.decs[hdr.ver].known, hdr.rest,
                                   Elem(dest))
                IN  vgob' = [vgob EXCEPT
                        !.store.u.decs[hdr.ver].known = d.known,
                        !.store.out =
                            [typ |-> "out", ver |-> hdr.ver,
                             dec |-> vgob.store.u.decs[hdr.ver].known,
                             res |-> d.dest, err |-> d.err]]
    /\ UNCHANGED <<clock, ctor, p, mu, call, log, qvars, codec>>

NextStore ==
    \/ \E name \in Names, v \in StoreValues : RegisterName(name, v)
    \/ Save
    \/ NewSchemaStore

SpecStore == Init /\ [][NextStore]_vars

\* the name the Marshaler and the Unmarshaler are made for
TagNames == {"a"}

NextTags ==
    \/ \E name \in TagNames, v \in GobValues : RegisterName(name, v)
    \/ \E name \in TagNames : StoreNewMarshaler(name)
    \/ \E name \in TagNames : StoreNewUnmarshaler(name)
    \/ \E v \in GobValues : StoreMarshal(v)
    \/ \E dest \in GobValues : StoreUnmarshal(dest)

SpecTags == Init /\ [][NextTags]_vars

\* the distinct schemas registered under a name, in the order of their first
\* registration
RECURSIVE FirstRegistered(_, _)
FirstRegistered(regs, name) ==
    IF regs = <<>> THEN <<>>
    ELSE LET before == FirstRegistered(SubSeq(regs, 1, Len(regs) - 1), name)
             last == regs[Len(regs)]
         IN  IF last.name = name
                /\ \A i \in 1..Len(before) : before[i] # last.schema
             THEN Append(before, last.schema)
             ELSE before

\* C33: after any sequence of RegisterName calls, a name holds a schema
\* exactly if something was registered under it, and the k-th distinct schema
\* registered under the name, in the order of first registration, has
\* version k, so that the versions of a name are distinct and are exactly
\* 1..n; a RegisterName of a schema that is recorded under the name changes
\* no version and adds no entry, under any name.
C33_Numbering ==
    /\ [](\A name \in Names :
            LET order == FirstRegistered(vgob.store.regs, name)
            IN  IF order = <<>> THEN name \notin DOMAIN vgob.store.schemas
                ELSE /\ name \in DOMAIN vgob.store.schemas
                     /\ DOMAIN vgob.store.schemas[name].Versions =
                            {order[i] : i \in 1..Len(order)}
                     /\ \A i \in 1..Len(order) :
                            vgob.store.schemas[name].Versions[order[i]] = i)
    /\ [][\A name \in Names, v \in StoreValues :
            (/\ RegisterName(name, v)
             /\ name \in DOMAIN vgob.store.schemas
             /\ encodeSchema(getType(v))
                    \in DOMAIN vgob.store.schemas[name].Versions)
            => /\ DOMAIN vgob'.store.schemas = DOMAIN vgob.store.schemas
               /\ \A n \in DOMAIN vgob.store.schemas :
                      vgob'.store.schemas[n].Versions =
                          vgob.store.schemas[n].Versions]_vars

\* three schemas recorded under a name, the first of them registered again
\* after the second and before the third
C33_Witness ==
    /\ Len(vgob.store.regs) = 4
    /\ \A i \in 1..4 : vgob.store.regs[i].name = "a"
    /\ vgob.store.regs[3].schema = vgob.store.regs[1].schema
    /\ "a" \in DOMAIN vgob.store.schemas
    /\ Cardinality(DOMAIN vgob.store.schemas["a"].Versions) = 3
    /\ vgob.store.schemas["a"].Versions[vgob.store.regs[4].schema] = 3

\* C34: a Marshaler that NewMarshaler returns for a name holds the version
\* recorded under the name for the schema of the type registered under it,
\* and the decoder that an Unmarshaler of the name holds for the version of a
\* Marshaler of the name was made from the schema of the Marshaler's type,
\* in whatever order the schemas were registered.
C34_TagOfRegistered ==
    /\ [][\A name \in TagNames :
            StoreNewMarshaler(name)
            => vgob'.store.m.ver =
                   Lookup(vgob.store.schemas[name].Versions,
                          encodeSchema(vgob.store.schemas[name].typ))]_vars
    /\ []((/\ vgob.store.m # None
           /\ vgob.store.u # None
           /\ vgob.store.m.ver \in DOMAIN vgob.store.u.decs)
          => vgob.store.u.decs[vgob.store.m.ver].schema =
                 encodeSchema(vgob.store.m.typ))

=============================================================================
